---- MODULE Spec2Model ----
(***************************************************************************)
(* State-machine model of the Superset front-end components whose logic    *)
(* carries state: the DatabaseSelector (cascading database -> schema       *)
(* selection), the two import modals with the list view that shows them,  *)
(* the import/list API helpers, and the ChartTable of the welcome page.    *)
(*                                                                         *)
(* JavaScript values are encoded as follows.  A database id is a natural   *)
(* number; 0 stands for a falsy id (null or undefined).  A schema name is  *)
(* a string; UNDEF and NULL are the strings that stand for undefined and   *)
(* null.  A React event handler is one atomic action: the handler body,    *)
(* the batched state update, the re-render and the effects the re-render   *)
(* schedules.  The callbacks a step invokes are recorded, in order, in     *)
(* `calls`, and the step itself in `lastOp`.                               *)
(***************************************************************************)
EXTENDS Integers, Sequences, FiniteSets, TLC

\* ------------------------------------------------------------------ bounds
MaxInFlight == 3        \* schema requests in flight at the same time

DbIds == {1, 2}         \* ids of the databases the server knows

UNDEF == "undefined"
NULL == "null"

VARIABLES
  \* ---- DatabaseSelector
  props,          \* the props: dbId, formMode and which optional callbacks are given
  mounted,        \* whether the mount effect has run
  currentDbId,    \* useState(dbId)
  currentSchema,  \* useState(schema)
  schemaLoading,  \* useState(false)
  schemaOptions,  \* useState([])
  dbOptions,      \* the options of the database select (what dbMutator returned)
  requests,       \* schema requests in flight, in the order they were issued
  lastForce,      \* the force argument of the latest changeDataBase call
  \* ---- the import modals, one entry per modal
  file,           \* state.dashboardFile / state.datasetFile
  error,          \* the error prop
  inputFiles,     \* the files held by the <input type="file"> of the form
  rendered,       \* what render() last produced: uploadDisabled and alert
  show,           \* the show prop
  pending,        \* the import requests the list view has in flight
  \* ---- ChartTable
  user,           \* the user prop: the userId, 0 when no user is given
  chartFilter,    \* useState('Mine')
  charts,         \* state.resourceCollection of useListViewResource
  fetches,        \* fetchData requests in flight, in the order they were issued
  favoriteStatus, \* the favorite map of useFavoriteStatus
  updates,        \* favorite updates in flight, in the order they were issued
  \* ---- what the last step was and the callbacks it invoked, in order
  lastOp,
  calls

selVars == <<props, mounted, currentDbId, currentSchema, schemaLoading,
             schemaOptions, dbOptions, requests, lastForce>>

modalVars == <<file, error, inputFiles, rendered, show, pending>>

chartVars == <<user, chartFilter, charts, fetches, favoriteStatus, updates>>

vars == <<selVars, modalVars, chartVars, lastOp, calls>>

Range(s) == {s[i] : i \in 1..Len(s)}

\* ------------------------------------------------------------- the server
\* GET /api/v1/database/{id}/schemas/ : json.result, the schema names of a database
ServerSchemas(db) == IF db = 1 THEN <<"a">> ELSE <<"b", "c">>

\* GET /api/v1/database/ : data.result, one row per database
Row(id) == [id |-> id, backend |-> "mysql",
            database_name |-> (IF id = 1 THEN "main" ELSE "logs")]

DbLists == {<<>>, <<Row(1), Row(2)>>}

\* --------------------------------------------------------- callback records
OnSchemaChange(s) == [cb |-> "onSchemaChange", schema |-> s]
OnDbChange(db) == [cb |-> "onDbChange", db |-> db]
Get(req) == [cb |-> "get", req |-> req]
OnChange(dbId, s) == [cb |-> "onChange", dbId |-> dbId, schema |-> s]
GetTableList(dbId, s, force) ==
  [cb |-> "getTableList", dbId |-> dbId, schema |-> s, force |-> force]
OnSchemasLoad(options) == [cb |-> "onSchemasLoad", options |-> options]
HandleError(msg) == [cb |-> "handleError", msg |-> msg]
GetDbList(result) == [cb |-> "getDbList", result |-> result]

SchemaError == "Error while fetching schema list"
AccessError == "It seems you don't have access to any database"
DbListError == "Error while fetching database list"

\* ------------------------------------------------------------ fetchSchemas
NullDb == [isNull |-> TRUE]
NullItem == [isNull |-> TRUE]

\* const actualDbId = databaseId || dbId
ActualDbId(databaseId, dbIdProp) ==
  IF databaseId # 0 THEN databaseId ELSE dbIdProp

\* rison.encode({force: Boolean(forceRefresh)})
ForceFlag(forceRefresh) == forceRefresh

\* The requests in flight after fetchSchemas(databaseId, forceRefresh)
fetchSchemas(reqs, databaseId, forceRefresh, dbIdProp) ==
  LET actualDbId == ActualDbId(databaseId, dbIdProp)
  IN  IF actualDbId # 0
      THEN Append(reqs, [db |-> actualDbId, force |-> ForceFlag(forceRefresh)])
      ELSE reqs

\* The SupersetClient.get calls that took reqs to reqs2
Issued(reqs, reqs2) ==
  [i \in 1..(Len(reqs2) - Len(reqs)) |-> Get(reqs2[Len(reqs) + i])]

\* json.result.map(s => ({value: s, label: s, title: s}))
Options(result) ==
  [i \in 1..Len(result) |-> [value |-> result[i], label |-> result[i], title |-> result[i]]]

Remove(s, i) == [j \in 1..(Len(s) - 1) |-> IF j < i THEN s[j] ELSE s[j + 1]]

\* Faulty variant: a response is applied only if it is for the database now selected
ThenOptions_CurrentDbOnly(req) ==
  IF req.db = currentDbId THEN Options(ServerSchemas(req.db)) ELSE schemaOptions

\* The options the .then handler stores for request req
ThenOptions(req) == Options(ServerSchemas(req.db))

\* Faulty variant: the .catch handler leaves the options as they are
CatchOptions_Keeps == schemaOptions

\* The options the .catch handler stores
CatchOptions == <<>>

\* Faulty variant: the .catch handler rethrows
SchemasPromise_Rethrows(ok) == IF ok THEN "fulfilled" ELSE "rejected"

\* The promise fetchSchemas returns: its .catch handler returns normally
SchemasPromise(ok) == "fulfilled"

\* Faulty variant: the .then handler also reports a schema change to the parent
LoadCalls_ReportsSchema(options) ==
  <<OnSchemaChange(NULL)>>
    \o (IF props.onSchemasLoad THEN <<OnSchemasLoad(options)>> ELSE <<>>)

\* if (onSchemasLoad) onSchemasLoad(options)
LoadCalls(options) ==
  IF props.onSchemasLoad THEN <<OnSchemasLoad(options)>> ELSE <<>>

\* .then(({json}) => ...): request i succeeds
FetchThen(i) ==
  /\ i \in 1..Len(requests)
  /\ LET req == requests[i]
         options == ThenOptions(req)
     IN  /\ schemaOptions' = options
         /\ schemaLoading' = FALSE
         /\ calls' = LoadCalls(options)
         /\ lastOp' = [op |-> "fetchThen", req |-> req, promise |-> SchemasPromise(TRUE)]
  /\ requests' = Remove(requests, i)
  /\ UNCHANGED <<props, mounted, currentDbId, currentSchema, dbOptions, lastForce, modalVars, chartVars>>

\* .catch(() => ...): request i fails
FetchCatch(i) ==
  /\ i \in 1..Len(requests)
  /\ LET req == requests[i]
     IN  /\ schemaOptions' = CatchOptions
         /\ schemaLoading' = FALSE
         /\ calls' = <<HandleError(SchemaError)>>
         /\ lastOp' = [op |-> "fetchCatch", req |-> req, promise |-> SchemasPromise(FALSE)]
  /\ requests' = Remove(requests, i)
  /\ UNCHANGED <<props, mounted, currentDbId, currentSchema, dbOptions, lastForce, modalVars, chartVars>>

\* useEffect(() => { if (currentDbId) fetchSchemas(currentDbId) }, [currentDbId])
\* The requests in flight after the effect of a render in which currentDbId
\* went from `before` to `after`
Effect(reqs, before, after, dbIdProp) ==
  IF after # before /\ after # 0
  THEN fetchSchemas(reqs, after, FALSE, dbIdProp)
  ELSE reqs

\* The first render and its effect
Mount ==
  /\ ~mounted
  /\ mounted' = TRUE
  /\ requests' = (IF currentDbId # 0
                  THEN fetchSchemas(requests, currentDbId, FALSE, props.dbId)
                  ELSE requests)
  /\ schemaLoading' = (Len(requests') > Len(requests) \/ schemaLoading)
  /\ calls' = Issued(requests, requests')
  /\ lastOp' = [op |-> "mount"]
  /\ UNCHANGED <<props, currentDbId, currentSchema, schemaOptions, dbOptions,
                 lastForce, modalVars, chartVars>>

\* if (onChange) onChange({dbId: currentDbId, schema: currentSchema}),
\* with the currentDbId and currentSchema of the render the handler belongs to
onSelectChange ==
  IF props.onChange THEN <<OnChange(currentDbId, currentSchema)>> ELSE <<>>

\* const dbId = db ? db.id : null
DbIdOf(db) == IF db = NullDb THEN 0 ELSE db.id

\* Faulty variant: changeDataBase does not clear the options
ClearedOptions_Keeps(options) == options

\* setSchemaOptions([]) of changeDataBase
ClearedOptions(options) == <<>>

\* onSchemaChange(null); onDbChange(db), the calls that precede fetchSchemas
ResetCalls(db) == <<OnSchemaChange(NULL), OnDbChange(db)>>

changeDataBase(db, force) ==
  LET dbId == DbIdOf(db)
      reqs1 == fetchSchemas(requests, dbId, force, props.dbId)
      reqs2 == Effect(reqs1, currentDbId, dbId, props.dbId)
  IN  /\ mounted
      /\ Len(reqs2) <= MaxInFlight
      /\ schemaOptions' = ClearedOptions(schemaOptions)
      /\ requests' = reqs2
      /\ schemaLoading' = (Len(reqs2) > Len(requests) \/ schemaLoading)
      /\ currentDbId' = dbId
      /\ currentSchema' = UNDEF
      /\ calls' = ResetCalls(db) \o Issued(requests, reqs1) \o onSelectChange
                    \o Issued(reqs1, reqs2)
      /\ lastForce' = force
      /\ lastOp' = [op |-> "changeDataBase", db |-> db, force |-> force]
      /\ UNCHANGED <<props, mounted, dbOptions, modalVars, chartVars>>

\* <SupersetAsyncSelect onChange={(db) => changeDataBase(db)} />
DatabaseSelect ==
  \E db \in Range(dbOptions) \cup {NullDb} : changeDataBase(db, FALSE)

\* <RefreshLabel onClick={() => changeDataBase({id: dbId}, true)} />, when !formMode
RefreshClick ==
  /\ ~props.formMode
  /\ changeDataBase([id |-> props.dbId], TRUE)

\* Faulty variant: getTableList is given the dbId prop instead of the selected database
TableListCalls_PropDbId(schema, force) ==
  IF props.getTableList THEN <<GetTableList(props.dbId, schema, force)>> ELSE <<>>

\* getTableList(currentDbId, schema, force), when the prop is given
TableListCalls(schema, force) ==
  IF props.getTableList THEN <<GetTableList(currentDbId, schema, force)>> ELSE <<>>

changeSchema(schemaOpt, force) ==
  LET schema == IF schemaOpt = NullItem THEN NULL ELSE schemaOpt.value
  IN  /\ mounted
      /\ currentSchema' = schema
      /\ calls' = <<OnSchemaChange(schema)>> \o onSelectChange
                    \o TableListCalls(schema, force)
      /\ lastOp' = [op |-> "changeSchema", schemaOpt |-> schemaOpt, force |-> force]
      /\ UNCHANGED <<props, mounted, currentDbId, schemaLoading, schemaOptions,
                     dbOptions, requests, lastForce, modalVars, chartVars>>

\* <Select onChange={item => changeSchema(item)} />
SchemaSelect ==
  \E item \in Range(schemaOptions) \cup {NullItem} : changeSchema(item, FALSE)

\* Faulty variant: the access error is reported whatever the response holds
AccessCalls_Always(result) == <<HandleError(AccessError)>>

\* if (data.result.length === 0) handleError(...)
AccessCalls(result) ==
  IF Len(result) = 0 THEN <<HandleError(AccessError)>> ELSE <<>>

\* label: `${row.backend} ${row.database_name}`
Labelled(row) ==
  [id |-> row.id, backend |-> row.backend, database_name |-> row.database_name,
   label |-> row.backend \o " " \o row.database_name]

\* The mutator of the database select, called with each database-list response
dbMutator(result) ==
  /\ mounted
  /\ calls' = (IF props.getDbList THEN <<GetDbList(result)>> ELSE <<>>)
                \o AccessCalls(result)
  /\ dbOptions' = [i \in 1..Len(result) |-> Labelled(result[i])]
  /\ lastOp' = [op |-> "dbMutator", result |-> result]
  /\ UNCHANGED <<props, mounted, currentDbId, currentSchema, schemaLoading,
                 schemaOptions, requests, lastForce, modalVars, chartVars>>

DbListResponse == \E result \in DbLists : dbMutator(result)

\* onAsyncError={() => handleError(t('Error while fetching database list'))}
onAsyncError ==
  /\ mounted
  /\ calls' = <<HandleError(DbListError)>>
  /\ lastOp' = [op |-> "onAsyncError"]
  /\ UNCHANGED <<selVars, modalVars, chartVars>>

\* The parent renders the selector with another dbId prop
ParentSetsDbId ==
  /\ mounted
  /\ \E d \in DbIds \cup {0} :
       /\ d # props.dbId
       /\ props' = [props EXCEPT !.dbId = d]
  /\ calls' = <<>>
  /\ lastOp' = [op |-> "props"]
  /\ UNCHANGED <<mounted, currentDbId, currentSchema, schemaLoading, schemaOptions,
                 dbOptions, requests, lastForce, modalVars, chartVars>>

\* The props a parent mounts the selector with: any dbId, with or without the
\* schema refresh control, and the optional callbacks all given or all omitted
SelectorProps ==
  {[dbId |-> d, formMode |-> f, onSchemasLoad |-> o, getDbList |-> o,
    getTableList |-> o, onChange |-> o] :
     d \in DbIds \cup {0}, f \in BOOLEAN, o \in BOOLEAN}

InitState(p) ==
  /\ props = p
  /\ mounted = FALSE
  /\ currentDbId = p.dbId
  /\ currentSchema \in {UNDEF, "a"}
  /\ schemaLoading = FALSE
  /\ schemaOptions = <<>>
  /\ dbOptions = <<>>
  /\ requests = <<>>
  /\ lastForce = FALSE
  /\ lastOp = [op |-> "init"]
  /\ calls = <<>>

\* ---------------------------------------------------------- the API helpers
Files == {"f1.zip", "f2.json"}

\* importDataset / post (the import POST) and the two get helpers (the list GET),
\* named importDataset, post, datasetGet and dashboardGet
Endpoint(h) ==
  CASE h = "importDataset" -> "/api/v1/dataset/import/"
    [] h = "post" -> "/api/v1/dashboard/import/"
    [] h = "datasetGet" -> "/api/v1/dataset?q=(order_column:changed_on_delta_humanized,order_direction:desc,page:0,page_size:10)"
    [] h = "dashboardGet" -> "/api/v1/dashboard?q=(order_column:changed_on_delta_humanized,order_direction:desc,page:0,page_size:10)"

IsImport(h) == h \in {"importDataset", "post"}

\* The SupersetClient call of helper h
ClientCall(h, f) ==
  IF IsImport(h)
  THEN [cb |-> "SupersetClient.post", endpoint |-> Endpoint(h),
        field |-> "formData", file |-> f]
  ELSE [cb |-> "SupersetClient.get", endpoint |-> Endpoint(h)]

\* The promise of an async helper that awaits the request outside any try/catch
HelperPromise(ok) == IF ok THEN "fulfilled" ELSE "rejected"

\* One call of helper h, from the call to the settling of the promise it returns
ApiCall(h, f, ok) ==
  /\ calls' = <<ClientCall(h, f)>>
  /\ lastOp' = [op |-> "api", helper |-> h, file |-> f, ok |-> ok,
                promise |-> HelperPromise(ok)]
  /\ UNCHANGED <<selVars, modalVars, chartVars>>

ImportCall == \E h \in {"importDataset", "post"}, f \in Files, ok \in BOOLEAN : ApiCall(h, f, ok)

ListCall == \E h \in {"datasetGet", "dashboardGet"}, ok \in BOOLEAN : ApiCall(h, NULL, ok)

\* ------------------------------------------------------- the import modals
Modals == {"dashboard", "dataset"}

\* event.target.files: null (an event that carries no file list) or a file list
NullFiles == [isNull |-> TRUE, items |-> <<>>]
FileList(items) == [isNull |-> FALSE, items |-> items]
FileLists == {NullFiles, FileList(<<>>), FileList(<<"f1.zip">>),
              FileList(<<"f2.json", "f1.zip">>)}

\* The values of the error prop: undefined, null, '' and a server message
Errors == {UNDEF, NULL, "", "Import failed"}

\* !!error?.length
HasLength(e) == e \notin {UNDEF, NULL} /\ Len(e) > 0

\* Faulty variant: the Upload control ignores the error prop
UploadDisabled_IgnoresError(f, e) == f = UNDEF

\* Faulty variant: the Upload control ignores the file state
UploadDisabled_OnlyError(f, e) == HasLength(e)

\* disabled={!this.state.dashboardFile || !!error?.length}
UploadDisabled(f, e) == f = UNDEF \/ HasLength(e)

\* Faulty variant: the alert is rendered for every string, the empty one included
Alert_AnyString(e) == IF e \notin {UNDEF, NULL} THEN [shown |-> TRUE, text |-> e]
                      ELSE [shown |-> FALSE, text |-> ""]

\* {!!error?.length && <AlertWrapper>...{error}</AlertWrapper>}
Alert(e) == IF HasLength(e) THEN [shown |-> TRUE, text |-> e]
            ELSE [shown |-> FALSE, text |-> ""]

\* render()
Render(f, e) == [uploadDisabled |-> UploadDisabled(f, e), alert |-> Alert(e)]

\* Faulty variant: the last file of the list is taken
FirstFile_Last(files) ==
  IF ~files.isNull /\ Len(files.items) > 0 THEN files.items[Len(files.items)] ELSE UNDEF

\* (files && files[0]) || undefined
FirstFile(files) ==
  IF ~files.isNull /\ Len(files.items) > 0 THEN files.items[1] ELSE UNDEF

OnHide(m, e) == [cb |-> "onHide", modal |-> m, event |-> e]
OnFileSelect(m) == [cb |-> "onFileSelect", modal |-> m]
OnSubmit(m, f) == [cb |-> "onSubmit", modal |-> m, file |-> f]
PreventDefault(m) == [cb |-> "preventDefault", modal |-> m]
StopPropagation(m) == [cb |-> "stopPropagation", modal |-> m]

\* ---- the list view that shows a modal: it owns the show and error props and
\* ---- is given the file by onSubmit
MaxPending == 1         \* import requests of one list view in flight at a time

\* The message of the server's error response
ServerError == "Import failed"

\* The helper the list view of modal m calls with the submitted file
ImportHelper(m) == IF m = "dataset" THEN "importDataset" ELSE "post"

\* The list view's onSubmit: it hands the file to the import helper
ParentOnSubmit(m, f) == <<ClientCall(ImportHelper(m), f)>>

\* The list view's onHide: the show prop it renders the modal with afterwards
ParentOnHide(m) == FALSE

\* ---- the modal's own handlers
\* Faulty variant: onCancel keeps the file state
CancelledFile_Keeps(f) == f

\* this.setState({dashboardFile: undefined}) of onCancel
CancelledFile(f) == UNDEF

\* The Cancel button and the modal's own hide both call onCancel
CancelEvents == {"cancel-click", "modal-hide"}

onCancel(m, e) ==
  /\ show[m]
  /\ file' = [file EXCEPT ![m] = CancelledFile(file[m])]
  /\ rendered' = [rendered EXCEPT ![m] = Render(file'[m], error[m])]
  /\ show' = [show EXCEPT ![m] = ParentOnHide(m)]
  /\ calls' = <<OnHide(m, e)>>
  /\ lastOp' = [op |-> "onCancel", modal |-> m, event |-> e]
  /\ UNCHANGED <<error, inputFiles, pending, selVars, chartVars>>

changeFile(m, files) ==
  /\ show[m]
  /\ file' = [file EXCEPT ![m] = FirstFile(files)]
  /\ inputFiles' = [inputFiles EXCEPT ![m] = files.items]
  /\ rendered' = [rendered EXCEPT ![m] = Render(FirstFile(files), error[m])]
  /\ calls' = <<OnFileSelect(m)>>
  /\ lastOp' = [op |-> "changeFile", modal |-> m, files |-> files]
  /\ UNCHANGED <<error, show, pending, selVars, chartVars>>

\* Faulty variant: submit does not stop the propagation of the event
SubmitCalls_Propagates(m, f) == <<PreventDefault(m), OnSubmit(m, f)>>

\* e.preventDefault(); e.stopPropagation(); this.props.onSubmit(dashboardFile)
SubmitCalls(m, f) == <<PreventDefault(m), StopPropagation(m), OnSubmit(m, f)>>

\* The form's submit event: the browser dispatches it from the Upload button,
\* which is of type submit, only while that button is not disabled
submit(m) ==
  /\ show[m]
  /\ ~rendered[m].uploadDisabled
  /\ pending[m] < MaxPending
  /\ calls' = SubmitCalls(m, file[m]) \o ParentOnSubmit(m, file[m])
  /\ pending' = [pending EXCEPT ![m] = @ + 1]
  /\ lastOp' = [op |-> "submit", modal |-> m]
  /\ UNCHANGED <<file, error, inputFiles, rendered, show, selVars, chartVars>>

\* this.props.error?.length && !prevProps.error?.length, in ImportDatasetModal;
\* ImportDashboardModal has no componentDidUpdate
FormResets(m, prevError, newError) ==
  m = "dataset" /\ HasLength(newError) /\ ~HasLength(prevError)

\* componentDidUpdate of ImportDatasetModal: form.reset() when an error appears
DidUpdate(m, prevError, newError, files) ==
  IF FormResets(m, prevError, newError) THEN <<>> ELSE files

\* The modal is rendered with the error prop e
ReceiveError(m, e) ==
  /\ error' = [error EXCEPT ![m] = e]
  /\ rendered' = [rendered EXCEPT ![m] = Render(file[m], e)]
  /\ inputFiles' = [inputFiles EXCEPT ![m] = DidUpdate(m, error[m], e, inputFiles[m])]

\* The parent renders the modal with another error prop
ErrorProp(m, e) ==
  /\ e # error[m]
  /\ ReceiveError(m, e)
  /\ calls' = <<>>
  /\ lastOp' = [op |-> "errorProp", modal |-> m, error |-> e,
                reset |-> FormResets(m, error[m], e)]
  /\ UNCHANGED <<file, show, pending, selVars, chartVars>>

\* The import button of the list view: the modal is shown
ShowModal(m) ==
  /\ ~show[m]
  /\ show' = [show EXCEPT ![m] = TRUE]
  /\ calls' = <<>>
  /\ lastOp' = [op |-> "show", modal |-> m]
  /\ UNCHANGED <<file, error, inputFiles, rendered, pending, selVars, chartVars>>

\* An import request succeeds: the list view calls its onHide
ImportSucceeds(m) ==
  /\ pending[m] > 0
  /\ pending' = [pending EXCEPT ![m] = @ - 1]
  /\ show' = [show EXCEPT ![m] = ParentOnHide(m)]
  /\ calls' = <<OnHide(m, UNDEF)>>
  /\ lastOp' = [op |-> "importSuccess", modal |-> m]
  /\ UNCHANGED <<file, error, inputFiles, rendered, selVars, chartVars>>

\* An import request fails: the list view renders the modal with the server's
\* message as the error prop
ImportFails(m) ==
  /\ pending[m] > 0
  /\ pending' = [pending EXCEPT ![m] = @ - 1]
  /\ ReceiveError(m, ServerError)
  /\ calls' = <<>>
  /\ lastOp' = [op |-> "importFailure", modal |-> m,
                reset |-> FormResets(m, error[m], ServerError)]
  /\ UNCHANGED <<file, show, selVars, chartVars>>

InitModals ==
  /\ file = [m \in Modals |-> UNDEF]
  /\ error \in [Modals -> Errors]
  /\ inputFiles = [m \in Modals |-> <<>>]
  /\ rendered = [m \in Modals |-> Render(file[m], error[m])]
  /\ show = [m \in Modals |-> FALSE]
  /\ pending = [m \in Modals |-> 0]

\* ------------------------------------------------------------ the ChartTable
PAGE_SIZE == 3

MaxFetches == 2         \* fetchData requests in flight at the same time
MaxUpdates == 1         \* favorite updates in flight at the same time

ChartIds == {1, 2}      \* ids of the charts the server knows
UserIds == {0, 42}      \* the user prop: no user, or the user with userId 42
Tabs == {"Favorite", "Mine"}

\* The mine prop, the charts shown before any tab is clicked
MineProps == {<<>>, <<1>>}

\* GET /api/v1/chart/ : the result array for a page request
ServerCharts(page) ==
  IF page.filters[1].id = "created_by" THEN <<1, 2>> ELSE <<2>>

FetchData(page) == [cb |-> "fetchData", page |-> page]
ChartsGet(page) == [cb |-> "chartsGet", page |-> page]
FavoriteUpdate(id, flag) == [cb |-> "favoriteUpdate", id |-> id, flag |-> flag]
AddDangerToast(msg) == [cb |-> "addDangerToast", msg |-> msg]

FetchToast == "An error occurred while fetching charts"
FavoriteToast == "There was an error saving the favorite status"

\* `${user?.userId}`
UserIdString(u) == IF u = 0 THEN UNDEF ELSE ToString(u)

\* Faulty variant: every tab filters on the creator
getFilters_AlwaysMine(filterName) ==
  <<[id |-> "created_by", operator |-> "rel_o_m", value |-> UserIdString(user)]>>

getFilters(filterName) ==
  IF filterName = "Mine"
  THEN <<[id |-> "created_by", operator |-> "rel_o_m", value |-> UserIdString(user)]>>
  ELSE <<[id |-> "id", operator |-> "chart_is_fav", value |-> TRUE]>>

\* The page request getData(filter) passes to fetchData
getData(filter) ==
  [pageIndex |-> 0,
   pageSize |-> PAGE_SIZE,
   sortBy |-> <<[id |-> "changed_on_delta_humanized", desc |-> TRUE]>>,
   filters |-> getFilters(filter)]

\* ---- useListViewResource
\* Faulty variant: a call is dropped while a request for the same page is in flight
fetchData_Deduplicates(reqs, req) ==
  IF \E i \in 1..Len(reqs) : reqs[i].page = req.page THEN reqs ELSE Append(reqs, req)

\* The requests in flight after fetchData(req.page): every call issues a request
fetchData(reqs, req) == Append(reqs, req)

\* The resource collection after the response of request req
LoadedCollection(req) == ServerCharts(req.page)

\* The promise fetchData returns: a failure is caught and reported by a toast
FetchDataPromise(ok) == "fulfilled"

\* ---- useFavoriteStatus
\* Faulty variant: the flag is left to the server's response
FlagAtToggle_Waits(flag, isFavorite) == flag

\* The local flag right after saveFavoriteStatus(id, isFavorite)
FlagAtToggle(flag, isFavorite) == ~isFavorite

\* The local flag after the server's answer: it is not reverted on failure
FlagAtAnswer(flag, ok) == flag

\* ---- ChartTable
\* onClick of a tab: getData(tab).then(() => setChartFilter(tab))
TabClick(tab) ==
  LET req == [page |-> getData(tab), tab |-> tab]
      reqs == fetchData(fetches, req)
  IN  /\ Len(fetches) < MaxFetches
      /\ fetches' = reqs
      /\ calls' = <<FetchData(req.page)>>
                    \o [i \in 1..(Len(reqs) - Len(fetches)) |-> ChartsGet(reqs[Len(fetches) + i].page)]
      /\ lastOp' = [op |-> "tabClick", tab |-> tab]
      /\ UNCHANGED <<user, chartFilter, charts, favoriteStatus, updates,
                     selVars, modalVars>>

\* The continuation of a tab click, run when the promise of fetchData settles
ThenFilter(req, promise) ==
  IF promise = "fulfilled" THEN req.tab ELSE chartFilter

\* Request i is answered with the result array
ChartsLoaded(i) ==
  /\ i \in 1..Len(fetches)
  /\ LET req == fetches[i]
     IN  /\ charts' = LoadedCollection(req)
         /\ chartFilter' = ThenFilter(req, FetchDataPromise(TRUE))
         /\ calls' = <<>>
         /\ lastOp' = [op |-> "chartsLoaded", req |-> req, pos |-> i]
  /\ fetches' = Remove(fetches, i)
  /\ UNCHANGED <<user, favoriteStatus, updates, selVars, modalVars>>

\* Request i fails
ChartsFailed(i) ==
  /\ i \in 1..Len(fetches)
  /\ LET req == fetches[i]
     IN  /\ chartFilter' = ThenFilter(req, FetchDataPromise(FALSE))
         /\ calls' = <<AddDangerToast(FetchToast)>>
         /\ lastOp' = [op |-> "chartsFailed", req |-> req, pos |-> i]
  /\ fetches' = Remove(fetches, i)
  /\ UNCHANGED <<user, charts, favoriteStatus, updates, selVars, modalVars>>

\* The star of a ChartCard: saveFavoriteStatus(id, favoriteStatus[id])
saveFavoriteStatus(id, isFavorite) ==
  /\ Len(updates) < MaxUpdates
  /\ favoriteStatus' =
       [favoriteStatus EXCEPT ![id] = FlagAtToggle(favoriteStatus[id], isFavorite)]
  /\ updates' = Append(updates, [id |-> id, flag |-> ~isFavorite])
  /\ calls' = <<FavoriteUpdate(id, ~isFavorite)>>
  /\ lastOp' = [op |-> "saveFavoriteStatus", id |-> id, isFavorite |-> isFavorite]
  /\ UNCHANGED <<user, chartFilter, charts, fetches, selVars, modalVars>>

StarClick == \E id \in Range(charts) : saveFavoriteStatus(id, favoriteStatus[id])

\* The server answers favorite update i
UpdateSettles(i, ok) ==
  /\ i \in 1..Len(updates)
  /\ LET upd == updates[i]
     IN  /\ favoriteStatus' =
              [favoriteStatus EXCEPT ![upd.id] = FlagAtAnswer(favoriteStatus[upd.id], ok)]
         /\ calls' = (IF ok THEN <<>> ELSE <<AddDangerToast(FavoriteToast)>>)
         /\ lastOp' = [op |-> "updateSettled", update |-> upd, ok |-> ok]
  /\ updates' = Remove(updates, i)
  /\ UNCHANGED <<user, chartFilter, charts, fetches, selVars, modalVars>>

InitChart ==
  /\ user \in UserIds
  /\ chartFilter = "Mine"
  /\ charts \in MineProps
  /\ fetches = <<>>
  /\ favoriteStatus \in [ChartIds -> BOOLEAN]
  /\ updates = <<>>

\* ------------------------------------------------------- the specifications
\* The modals as constructed, while the selector is the component under study
ModalsIdle ==
  /\ file = [m \in Modals |-> UNDEF]
  /\ error = [m \in Modals |-> UNDEF]
  /\ inputFiles = [m \in Modals |-> <<>>]
  /\ rendered = [m \in Modals |-> Render(UNDEF, UNDEF)]
  /\ show = [m \in Modals |-> FALSE]
  /\ pending = [m \in Modals |-> 0]

\* The ChartTable as constructed, while another component is under study
ChartIdle ==
  /\ user = 0
  /\ chartFilter = "Mine"
  /\ charts = <<>>
  /\ fetches = <<>>
  /\ favoriteStatus = [id \in ChartIds |-> FALSE]
  /\ updates = <<>>

\* The selector as constructed, while the modals are the components under study
SelectorIdle ==
  /\ InitState([dbId |-> 0, formMode |-> FALSE, onSchemasLoad |-> FALSE,
                getDbList |-> FALSE, getTableList |-> FALSE, onChange |-> FALSE])
  /\ currentSchema = UNDEF

\* The DatabaseSelector: every event of the component, in any order
InitSelector == (\E p \in SelectorProps : InitState(p)) /\ ModalsIdle /\ ChartIdle

NextSelector ==
  \/ Mount
  \/ DatabaseSelect
  \/ RefreshClick
  \/ SchemaSelect
  \/ DbListResponse
  \/ onAsyncError
  \/ ParentSetsDbId
  \/ \E i \in 1..MaxInFlight : FetchThen(i)
  \/ \E i \in 1..MaxInFlight : FetchCatch(i)

SpecSelector == InitSelector /\ [][NextSelector]_vars

\* The import modals: every event of both modals and of the list views that
\* show them, in any order
InitImport == SelectorIdle /\ InitModals /\ ChartIdle

NextImport ==
  \/ \E m \in Modals, e \in CancelEvents : onCancel(m, e)
  \/ \E m \in Modals, files \in FileLists : changeFile(m, files)
  \/ \E m \in Modals : submit(m)
  \/ \E m \in Modals, e \in Errors : ErrorProp(m, e)
  \/ \E m \in Modals : ShowModal(m)
  \/ \E m \in Modals : ImportSucceeds(m)
  \/ \E m \in Modals : ImportFails(m)

SpecImport == InitImport /\ [][NextImport]_vars

\* The fetch operations: the schema requests the selector issues and their
\* completions, the database-list responses, and the API helpers
InitFetch == (\E p \in SelectorProps : InitState(p)) /\ ModalsIdle /\ ChartIdle

NextFetch ==
  \/ Mount
  \/ DatabaseSelect
  \/ RefreshClick
  \/ DbListResponse
  \/ onAsyncError
  \/ \E i \in 1..MaxInFlight : FetchThen(i)
  \/ \E i \in 1..MaxInFlight : FetchCatch(i)
  \/ ImportCall
  \/ ListCall

SpecFetch == InitFetch /\ [][NextFetch]_vars

\* The ChartTable: tab clicks, star clicks and the server's answers, in any order
InitChartTable == InitChart /\ SelectorIdle /\ ModalsIdle

NextChartTable ==
  \/ \E tab \in Tabs : TabClick(tab)
  \/ \E i \in 1..MaxFetches : ChartsLoaded(i)
  \/ \E i \in 1..MaxFetches : ChartsFailed(i)
  \/ StarClick
  \/ \E i \in 1..MaxUpdates, ok \in BOOLEAN : UpdateSettles(i, ok)

SpecChartTable == InitChartTable /\ [][NextChartTable]_vars


\* ------------------------------------------------------------- the claims
CallsOf(cs, name) == SelectSeq(cs, LAMBDA c : c.cb = name)

IsCompletion(op) == op.op \in {"fetchThen", "fetchCatch"}

\* C1: every changeDataBase(db, force) call leaves schemaOptions empty and
\* currentSchema undefined, and calls onSchemaChange(null) and then onDbChange(db),
\* once each, before it issues any schema request; the requests it issued are
\* all still in flight when the step ends.
C1_ChangeDataBaseResetsBeforeFetch ==
  lastOp.op = "changeDataBase" =>
    /\ schemaOptions = <<>>
    /\ currentSchema = UNDEF
    /\ Len(calls) >= 2
    /\ calls[1] = OnSchemaChange(NULL)
    /\ calls[2] = OnDbChange(lastOp.db)
    /\ Len(CallsOf(calls, "onSchemaChange")) = 1
    /\ Len(CallsOf(calls, "onDbChange")) = 1
    /\ LET gets == CallsOf(calls, "get")
       IN  /\ Len(gets) <= Len(requests)
           /\ \A i \in 1..Len(gets) :
                requests[Len(requests) - Len(gets) + i] = gets[i].req

\* C1 witness: a database was chosen while an older request was in flight, and
\* the call issued requests of its own.
C1_Witness ==
  /\ lastOp.op = "changeDataBase"
  /\ lastOp.db # NullDb
  /\ Len(CallsOf(calls, "get")) >= 1
  /\ Len(requests) > Len(CallsOf(calls, "get"))

\* C2: whenever a database is selected and schemaOptions is not empty,
\* schemaOptions is the schema list of the database currentDbId names.
C2_OptionsBelongToCurrentDb ==
  (schemaOptions # <<>> /\ currentDbId # 0) =>
    schemaOptions = Options(ServerSchemas(currentDbId))

\* C3: a schema request leaves the set of requests in flight only by settling
\* (none is cancelled), and every completion overwrites schemaOptions with its
\* own result, empty if it failed, whichever requests were issued after it; so
\* when the last request settles schemaOptions is the result of that request.
C3_LastCompletionWins ==
  [][/\ IsCompletion(lastOp') =>
          schemaOptions' = (IF lastOp'.op = "fetchThen"
                            THEN Options(ServerSchemas(lastOp'.req.db))
                            ELSE <<>>)
     /\ Len(requests') < Len(requests) =>
          /\ IsCompletion(lastOp')
          /\ Len(requests') = Len(requests) - 1
          /\ \E i \in 1..Len(requests) :
               requests[i] = lastOp'.req /\ requests' = Remove(requests, i)]_vars

\* C3 witness: every request has settled, and the one that settled last, whose
\* result is displayed, is an older request than those issued for the database
\* now selected.
C3_Witness ==
  /\ requests = <<>>
  /\ lastOp.op = "fetchThen"
  /\ currentDbId # 0
  /\ lastOp.req.db # currentDbId
  /\ schemaOptions = Options(ServerSchemas(lastOp.req.db))

\* C4: the step in which a schema fetch fails empties schemaOptions, sets
\* schemaLoading to false, calls handleError once and nothing else (so not
\* onSchemasLoad), and leaves currentDbId as it was.
C4_FetchFailure ==
  [][lastOp'.op = "fetchCatch" =>
       /\ schemaOptions' = <<>>
       /\ schemaLoading' = FALSE
       /\ calls' = <<HandleError(SchemaError)>>
       /\ currentDbId' = currentDbId]_vars

\* C4 witness: a fetch has failed in a selector that was given onSchemasLoad and
\* has a database selected, while another request is still in flight.
C4_Witness ==
  /\ lastOp.op = "fetchCatch"
  /\ props.onSchemasLoad
  /\ currentDbId # 0
  /\ Len(requests) > 0

\* C5 as claimed: a failed schema fetch and a failed database-list fetch are
\* turned into a handleError call, and no fetch operation, the import POST and the
\* list GET helpers included, returns a promise that rejects.
C5_NoFetchRejects ==
  /\ lastOp.op = "fetchCatch" =>
       lastOp.promise = "fulfilled" /\ calls = <<HandleError(SchemaError)>>
  /\ lastOp.op = "onAsyncError" => calls = <<HandleError(DbListError)>>
  /\ lastOp.op = "api" => lastOp.promise # "rejected"

\* C5 as amended: a failed schema fetch and a failed database-list fetch are
\* turned into a handleError call and fetchSchemas never rejects; the import POST
\* and list GET helpers catch nothing: they call no error callback and the
\* promise they return rejects exactly when the request fails.
C5_SelectorCatchesHelpersReject ==
  /\ IsCompletion(lastOp) => lastOp.promise = "fulfilled"
  /\ lastOp.op = "fetchCatch" => calls = <<HandleError(SchemaError)>>
  /\ lastOp.op = "onAsyncError" => calls = <<HandleError(DbListError)>>
  /\ lastOp.op = "api" =>
       /\ (lastOp.promise = "rejected") <=> ~lastOp.ok
       /\ calls = <<ClientCall(lastOp.helper, lastOp.file)>>

\* C5 witness: an import POST has failed and the helper's promise is rejected.
C5_Witness ==
  /\ lastOp.op = "api"
  /\ IsImport(lastOp.helper)
  /\ ~lastOp.ok
  /\ lastOp.promise = "rejected"

\* C6: after a changeDataBase call with forceRefresh = true, once every request
\* has settled the options displayed were stored by a request whose force flag is
\* true; and the requests a call without forceRefresh issues carry force = false.
C6_ForcedResultIsDisplayed ==
  /\ (lastForce /\ requests = <<>> /\ lastOp.op = "fetchThen") => lastOp.req.force
  /\ (lastOp.op = "changeDataBase" /\ ~lastOp.force) =>
       \A i \in 1..Len(calls) : calls[i].cb = "get" => ~calls[i].req.force

\* C7: a changeSchema(opt, force) step sets currentSchema to opt.value, or to null
\* when opt is empty, calls onSchemaChange once with that value, calls
\* getTableList once with (currentDbId, that schema, force) if the prop is given
\* and not at all if it is not, issues no schema request and leaves currentDbId
\* and schemaOptions unchanged.
C7_ChangeSchema ==
  [][lastOp'.op = "changeSchema" =>
       LET schema == IF lastOp'.schemaOpt = NullItem THEN NULL
                     ELSE lastOp'.schemaOpt.value
       IN  /\ currentSchema' = schema
           /\ CallsOf(calls', "onSchemaChange") = <<OnSchemaChange(schema)>>
           /\ CallsOf(calls', "getTableList") =
                (IF props.getTableList
                 THEN <<GetTableList(currentDbId, schema, lastOp'.force)>>
                 ELSE <<>>)
           /\ CallsOf(calls', "get") = <<>>
           /\ requests' = requests
           /\ currentDbId' = currentDbId
           /\ schemaOptions' = schemaOptions]_vars

\* C7 witness: a schema of the displayed list was chosen in a selector that was
\* given getTableList, while the dbId prop differs from the selected database.
C7_Witness ==
  /\ lastOp.op = "changeSchema"
  /\ lastOp.schemaOpt # NullItem
  /\ props.getTableList
  /\ currentDbId # 0
  /\ props.dbId # currentDbId
  /\ currentSchema = lastOp.schemaOpt.value

\* C8: handling a database-list response calls handleError once, with the access
\* message, when the response holds no database, and not at all when it holds
\* at least one.
C8_AccessErrorOnce ==
  lastOp.op = "dbMutator" =>
    CallsOf(calls, "handleError") =
      (IF Len(lastOp.result) = 0 THEN <<HandleError(AccessError)>> ELSE <<>>)

\* C8 witness: an empty database list was handled by a selector that was given
\* getDbList.
C8_Witness ==
  /\ lastOp.op = "dbMutator"
  /\ Len(lastOp.result) = 0
  /\ props.getDbList
  /\ Len(calls) = 2

\* C9: in both import modals the Upload control is disabled exactly when no file
\* is selected or the error prop is a non-empty string.
C9_UploadDisabledIff ==
  \A m \in Modals :
    rendered[m].uploadDisabled <=>
      (file[m] = UNDEF \/ error[m] \notin {UNDEF, NULL, ""})

\* C9 witness: one modal holds a file and is disabled by its error alone, while
\* the other holds a file, has an empty error string and is enabled.
C9_Witness ==
  /\ file["dataset"] # UNDEF
  /\ error["dataset"] = "Import failed"
  /\ rendered["dataset"].uploadDisabled
  /\ file["dashboard"] # UNDEF
  /\ error["dashboard"] = ""
  /\ ~rendered["dashboard"].uploadDisabled

\* C10: onSubmit is never called while the file state of its modal is undefined:
\* every onSubmit call passes a file, the one the modal holds.
C10_NoSubmitWithoutFile ==
  \A i \in 1..Len(calls) :
    calls[i].cb = "onSubmit" =>
      /\ calls[i].file # UNDEF
      /\ file[calls[i].modal] = calls[i].file

\* C10 witness: a submit went through in a modal whose error prop is null.
C10_Witness ==
  /\ lastOp.op = "submit"
  /\ error[lastOp.modal] = NULL
  /\ Len(CallsOf(calls, "onSubmit")) = 1

\* C11: the step in which an import succeeds leaves the modal hidden and without
\* a selected file, so whenever the modal is shown it holds no file and its Upload
\* control is disabled.
C11_SuccessClearsFile ==
  /\ lastOp.op = "importSuccess" =>
       ~show[lastOp.modal] /\ file[lastOp.modal] = UNDEF
  /\ lastOp.op = "show" =>
       file[lastOp.modal] = UNDEF /\ rendered[lastOp.modal].uploadDisabled

\* C12: an onCancel step, whichever control raised it and whatever the modal
\* held, leaves the file state undefined and calls onHide once, with the event it
\* was given, and nothing else.
C12_CancelClearsAndHides ==
  lastOp.op = "onCancel" =>
    /\ file[lastOp.modal] = UNDEF
    /\ calls = <<OnHide(lastOp.modal, lastOp.event)>>

\* C12 witness: the modal's own hide cancelled a modal that held a file, so the
\* step before was not a cancel.
C12_Witness ==
  /\ lastOp.op = "onCancel"
  /\ lastOp.event = "modal-hide"
  /\ inputFiles[lastOp.modal] # <<>>
  /\ ~show[lastOp.modal]

\* C13: in every step the alert of each modal is rendered exactly when its error
\* prop is a non-empty string, and then shows that string; a step that changes the
\* error prop, a failed import included, leaves the modal shown as it was and
\* invokes no callback, neither onHide nor a toast.
C13_ErrorShownInline ==
  [][\A m \in Modals :
       /\ rendered'[m].alert.shown <=> error'[m] \notin {UNDEF, NULL, ""}
       /\ rendered'[m].alert.shown => rendered'[m].alert.text = error'[m]
       /\ (error'[m] # error[m] \/ lastOp'.op = "importFailure") =>
            show' = show /\ calls' = <<>>]_vars

\* C13 witness: an import has failed in a modal that is still shown, holds a file
\* and displays the server's message.
C13_Witness ==
  /\ lastOp.op = "importFailure"
  /\ show[lastOp.modal]
  /\ file[lastOp.modal] # UNDEF
  /\ rendered[lastOp.modal].alert = [shown |-> TRUE, text |-> ServerError]

\* C14: a submit step calls preventDefault, stopPropagation and onSubmit once
\* each, onSubmit with the file the modal holds, and leaves the file state and
\* the rest of the modal as they were; the import call it starts issues one POST,
\* to the import endpoint of the modal's resource, with that file in the field
\* formData.
C14_SubmitPassesFile ==
  [][lastOp'.op = "submit" =>
       LET m == lastOp'.modal
       IN  /\ CallsOf(calls', "preventDefault") = <<PreventDefault(m)>>
           /\ CallsOf(calls', "stopPropagation") = <<StopPropagation(m)>>
           /\ CallsOf(calls', "onSubmit") = <<OnSubmit(m, file[m])>>
           /\ file' = file
           /\ inputFiles' = inputFiles
           /\ rendered' = rendered
           /\ CallsOf(calls', "SupersetClient.post") =
                <<[cb |-> "SupersetClient.post",
                   endpoint |-> (IF m = "dashboard" THEN "/api/v1/dashboard/import/"
                                 ELSE "/api/v1/dataset/import/"),
                   field |-> "formData",
                   file |-> file[m]]>>]_vars

\* C14 witness: the dataset modal submitted the first file of the list chosen
\* last, and the POST carries it.
C14_Witness ==
  /\ lastOp.op = "submit"
  /\ lastOp.modal = "dataset"
  /\ inputFiles["dataset"] = <<"f2.json", "f1.zip">>
  /\ file["dataset"] = "f2.json"
  /\ Len(calls) = 4
  /\ calls[4].file = "f2.json"

\* C15: a modal is constructed with no file; a changeFile step sets the file
\* state to the first file of the event's list, to undefined when the event
\* carries no list or an empty one, and calls onFileSelect once and nothing else.
C15_ChangeFile ==
  /\ lastOp.op = "init" => \A m \in Modals : file[m] = UNDEF
  /\ lastOp.op = "changeFile" =>
       /\ file[lastOp.modal] =
            (IF lastOp.files.isNull \/ lastOp.files.items = <<>>
             THEN UNDEF
             ELSE Head(lastOp.files.items))
       /\ calls = <<OnFileSelect(lastOp.modal)>>

\* C15 witness: a list of two files was chosen and the first of them is held.
C15_Witness ==
  /\ lastOp.op = "changeFile"
  /\ Len(lastOp.files.items) = 2
  /\ file[lastOp.modal] = lastOp.files.items[1]
  /\ file[lastOp.modal] # lastOp.files.items[2]

\* C16: the step of saveFavoriteStatus(id, isFavorite) sets the local flag of id to
\* the opposite of isFavorite, which is the opposite of what it was, and touches no
\* other flag, while the server update it fired is still in flight; the server's
\* answer, success or failure, leaves the favorite map as it is.
C16_FlagFlipsAtToggle ==
  [][/\ lastOp'.op = "saveFavoriteStatus" =>
          /\ favoriteStatus'[lastOp'.id] = ~lastOp'.isFavorite
          /\ favoriteStatus'[lastOp'.id] # favoriteStatus[lastOp'.id]
          /\ \A id \in ChartIds \ {lastOp'.id} : favoriteStatus'[id] = favoriteStatus[id]
          /\ updates' = Append(updates, [id |-> lastOp'.id, flag |-> ~lastOp'.isFavorite])
          /\ calls' = <<FavoriteUpdate(lastOp'.id, ~lastOp'.isFavorite)>>
     /\ lastOp'.op = "updateSettled" => favoriteStatus' = favoriteStatus]_vars

\* C16 witness: a favorite chart was toggled; its flag is already false and the
\* server update is in flight.
C16_Witness ==
  /\ lastOp.op = "saveFavoriteStatus"
  /\ lastOp.isFavorite
  /\ ~favoriteStatus[lastOp.id]
  /\ updates # <<>>

\* C17: every fetchData call adds one request to those in flight and issues one
\* GET, whatever is in flight already; a request leaves only by being answered;
\* every successful answer makes the resource collection the result of its own
\* request, whichever requests were issued after it.
C17_LastResolvedWins ==
  [][/\ lastOp'.op = "tabClick" =>
          /\ Len(CallsOf(calls', "fetchData")) = 1
          /\ Len(CallsOf(calls', "chartsGet")) = 1
          /\ Len(fetches') = Len(fetches) + 1
          /\ SubSeq(fetches', 1, Len(fetches)) = fetches
     /\ lastOp'.op = "chartsLoaded" => charts' = ServerCharts(lastOp'.req.page)
     /\ Len(fetches') < Len(fetches) =>
          /\ lastOp'.op \in {"chartsLoaded", "chartsFailed"}
          /\ fetches[lastOp'.pos] = lastOp'.req
          /\ fetches' = Remove(fetches, lastOp'.pos)]_vars

\* C17 witness: of two overlapping requests for different tabs the one issued last
\* was answered first and its result is displayed, while the one issued first is
\* still in flight.
C17_Witness ==
  /\ lastOp.op = "chartsLoaded"
  /\ lastOp.pos = 2
  /\ Len(fetches) = 1
  /\ fetches[1].tab # lastOp.req.tab
  /\ charts = ServerCharts(lastOp.req.page)
  /\ charts # ServerCharts(fetches[1].page)

\* C18: a tab click calls fetchData once, with pageIndex 0, pageSize 3, sortBy
\* changed_on_delta_humanized descending and one filter: created_by rel_o_m the
\* stringified userId for Mine, id chart_is_fav true for the other tab; a successful
\* answer makes the resource collection the server's result array.
C18_TabClickRequest ==
  /\ lastOp.op = "tabClick" =>
       /\ Len(CallsOf(calls, "fetchData")) = 1
       /\ LET page == CallsOf(calls, "fetchData")[1].page
          IN  /\ page.pageIndex = 0
              /\ page.pageSize = 3
              /\ page.sortBy = <<[id |-> "changed_on_delta_humanized", desc |-> TRUE]>>
              /\ Len(page.filters) = 1
              /\ IF lastOp.tab = "Mine"
                 THEN /\ page.filters[1].id = "created_by"
                      /\ page.filters[1].operator = "rel_o_m"
                      /\ page.filters[1].value = (IF user = 42 THEN "42" ELSE "undefined")
                 ELSE /\ page.filters[1].id = "id"
                      /\ page.filters[1].operator = "chart_is_fav"
                      /\ page.filters[1].value = TRUE
  /\ lastOp.op = "chartsLoaded" => charts = ServerCharts(lastOp.req.page)

\* C18 witness: user 42 clicked Mine while a Favorite request was in flight.
C18_Witness ==
  /\ lastOp.op = "tabClick"
  /\ lastOp.tab = "Mine"
  /\ user = 42
  /\ Len(fetches) = 2
  /\ fetches[1].tab = "Favorite"
  /\ calls[1].page.filters[1].value = "42"

\* C19: a changeDataBase(db, force) step for a database issues exactly one schema
\* request, for db.id; the mount step issues exactly one request, unforced, when
\* the initial dbId is set, and none otherwise.
C19_OneRequestPerChange ==
  /\ (lastOp.op = "changeDataBase" /\ lastOp.db # NullDb /\ DbIdOf(lastOp.db) # 0) =>
       /\ Len(CallsOf(calls, "get")) = 1
       /\ CallsOf(calls, "get")[1].req.db = lastOp.db.id
  /\ lastOp.op = "mount" =>
       CallsOf(calls, "get") =
         (IF currentDbId # 0 THEN <<Get([db |-> currentDbId, force |-> FALSE])>>
          ELSE <<>>)

\* C20: when onChange is given, a changeDataBase step for a database and a
\* changeSchema step for a schema each call it exactly once, with the selection
\* the step results in: the new database id with no schema, or the current
\* database id with the new schema.
C20_OnChangeGetsResult ==
  (/\ props.onChange
   /\ \/ lastOp.op = "changeDataBase" /\ lastOp.db # NullDb /\ DbIdOf(lastOp.db) # 0
      \/ lastOp.op = "changeSchema" /\ lastOp.schemaOpt # NullItem) =>
    /\ Len(CallsOf(calls, "onChange")) = 1
    /\ CallsOf(calls, "onChange")[1] = OnChange(currentDbId, currentSchema)

\* C21: schemaLoading is true exactly while at least one schema request is in
\* flight.
C21_LoadingIffInFlight ==
  schemaLoading <=> requests # <<>>

\* C22: a step in which a schema fetch settles leaves currentDbId, currentSchema,
\* the database options and the props as they were and calls neither onDbChange
\* nor onSchemaChange; currentSchema changes only in changeDataBase steps, which
\* leave it undefined, and in changeSchema steps.
C22_CompletionFrame ==
  [][/\ IsCompletion(lastOp') =>
          /\ currentDbId' = currentDbId
          /\ currentSchema' = currentSchema
          /\ dbOptions' = dbOptions
          /\ props' = props
          /\ CallsOf(calls', "onDbChange") = <<>>
          /\ CallsOf(calls', "onSchemaChange") = <<>>
     /\ currentSchema' # currentSchema =>
          lastOp'.op \in {"changeDataBase", "changeSchema"}
     /\ lastOp'.op = "changeDataBase" => currentSchema' = UNDEF]_vars

\* C22 witness: a fetch has succeeded after a changeDataBase in a selector given
\* onSchemasLoad; options are displayed and the schema selection is still
\* undefined.
C22_Witness ==
  /\ lastOp.op = "fetchThen"
  /\ props.onSchemasLoad
  /\ currentDbId # props.dbId
  /\ currentSchema = UNDEF
  /\ schemaOptions # <<>>

\* C23: the active tab names the filter whose data is displayed: while it is
\* Mine the collection is the mine prop or the answer to a Mine request, and
\* while it is Favorite the collection is the answer to a Favorite request.
C23_TabNamesDisplayedData ==
  /\ chartFilter = "Mine" =>
       charts \in MineProps \cup {ServerCharts(getData("Mine"))}
  /\ chartFilter = "Favorite" => charts = ServerCharts(getData("Favorite"))

\* C24: the form of a modal is reset exactly in the steps in which the error
\* prop of ImportDatasetModal goes from absent or empty to a non-empty string, so
\* never in ImportDashboardModal; after a reset the file input is empty and
\* datasetFile is undefined.
C24_ResetOnNewError ==
  [][/\ lastOp'.op \in {"errorProp", "importFailure"} =>
          /\ lastOp'.reset <=>
               /\ lastOp'.modal = "dataset"
               /\ error'["dataset"] \notin {UNDEF, NULL, ""}
               /\ error["dataset"] \in {UNDEF, NULL, ""}
          /\ lastOp'.reset =>
               /\ inputFiles'[lastOp'.modal] = <<>>
               /\ file'[lastOp'.modal] = UNDEF
     /\ \A m \in Modals :
          (inputFiles'[m] = <<>> /\ inputFiles[m] # <<>>) =>
            \/ lastOp'.op = "changeFile"
            \/ lastOp'.op \in {"errorProp", "importFailure"} /\ lastOp'.reset]_vars

====
